---- MODULE Spec2Model ----
(***************************************************************************)
(* Model of src/src/clean_data.py: the per-series pipeline process_series, *)
(* the dispatch loop of main (serial map or multiprocessing.Pool with      *)
(* imap_unordered) and the final sweep remove_invalid_files_and_empty_dirs.*)
(*                                                                         *)
(* The output tree is a set of directories (paths: sequences of directory  *)
(* names) and a set of files (a directory path plus a file name).  A file  *)
(* name is the sequence of its dot-separated pieces, so "s1.nii.gz" is     *)
(* <<"s1","nii","gz">> and "LICENSE" is <<"LICENSE">>; os.path.splitext    *)
(* and str.endswith are computed on the pieces.                            *)
(***************************************************************************)
EXTENDS Integers, Sequences, FiniteSets, TLC

\* ---------------------------------------------------------------- bounds
MaxUnits == 2
MaxProcs == 2
MaxSweepFailures == 1
MaxRemoveFailures == 1
MaxSweepFiles == 2
MaxInputDirs == 2
MaxListing == 3

\* ---------------------------------------------------------------- inputs
\* The (zip + json) pairs the scan of main can hand out, in list order.
UnitPool ==
  << [patient_folder |-> "ISPY2-1",      date_folder |-> "01-02-2003", series_id |-> "s1"],
     [patient_folder |-> "ISPY2-1",      date_folder |-> "01-02-2003", series_id |-> "s2"],
     [patient_folder |-> "ACRIN-6698-7", date_folder |-> "11-30-2004", series_id |-> "s1"],
     [patient_folder |-> "ACRIN-6698-7", date_folder |-> "12-01-2004", series_id |-> "s3"] >>

\* The members an input archive may have: one without any frame file, and
\* one with a frame file (upper-case extension, in a subfolder) next to a
\* file that is no frame.
ArchiveShapes ==
  { { [sub |-> << >>, name |-> <<"LICENSE">>] },
    { [sub |-> <<"sub">>, name |-> <<"IMG2", "DCM">>],
      [sub |-> << >>, name |-> <<"notes", "txt">>] } }

\* ---------------------------------------------------------------- program constants
VALID_EXTENSIONS == { <<"dcm">>, <<"json">>, <<"nii", "gz">> }
VALID_FILENAMES == { <<"LICENSE">> }

\* ---------------------------------------------------------------- state
VARIABLES
  tasks,      \* main: the task list built by the scan
  archive,    \* input tree: the members of each task's .zip
  nprocs,     \* main: args.nprocs
  dirs,       \* output tree: directories
  files,      \* output tree: files
  pc,         \* per task: position inside process_series
  outcome,    \* per task: which return statement process_series left by
  dcm_files,  \* per task: the list collected by the os.walk of process_series
  ran,        \* per task: the steps of process_series that were executed
  undeleted,  \* per task: files whose removal failed and was swallowed
  runs,       \* per task: number of calls of process_series
  next_task,  \* index of the next task the iterator hands out
  results,    \* results put by the executors, not yet seen by main's loop
  received,   \* number of results main's loop has iterated over
  mainpc,     \* position of main
  sweepFailed, \* the sweep swallowed a removal error
  sweepLeft,  \* the files and folders whose removal failed in the latest sweep
  plan,       \* per task: how the environment behaves for it (which calls fail)
  run,        \* 1, or 2 when the same tasks are being processed a second time
  first,      \* what the first processing left, kept for comparison
  input       \* the date folders of input_dir that main has listed so far

vars == << tasks, archive, nprocs, dirs, files, pc, outcome, dcm_files, ran,
           undeleted, runs, next_task, results, received, mainpc,
           sweepFailed, sweepLeft, plan, run, first, input >>

\* the variables no step of one run of main changes
fixed == << plan, run, first, input >>

\* ---------------------------------------------------------------- paths and names
IsPrefix(p, q) == Len(p) <= Len(q) /\ SubSeq(q, 1, Len(p)) = p

Ancestors(p) == { SubSeq(p, 1, k) : k \in 0..Len(p) }

FilesUnder(fs, root) == { f \in fs : IsPrefix(root, f.dir) }

DirsUnder(ds, root) == { d \in ds : IsPrefix(root, d) }

\* str.lower on the pieces that occur
Lower(s) == CASE s = "DCM" -> "dcm"
              [] s = "IMG2" -> "img2"
              [] s = "LICENSE" -> "license"
              [] OTHER -> s

\* fname.lower().endswith(".dcm")
EndsWithDcm(name) == Len(name) >= 2 /\ Lower(name[Len(name)]) = "dcm"

\* os.path.splitext(fname)[1].lower(): the text from the LAST dot on, empty
\* when there is no dot or only leading dots.
SplitExt(name) ==
  IF Len(name) >= 2 /\ (\E k \in 1..(Len(name) - 1) : name[k] # "")
  THEN << Lower(name[Len(name)]) >>
  ELSE << >>

\* the test of remove_invalid_files_and_empty_dirs for a file to be removed
IsInvalid(name) == SplitExt(name) \notin VALID_EXTENSIONS /\ name \notin VALID_FILENAMES

N == Len(tasks)

\* (variant: every series of a visit is unpacked into the date folder itself)
series_out_dir_Shared(i) ==
  << tasks[i].patient_folder, tasks[i].date_folder >>

\* line 54: os.path.join(output_dir, patient_folder, date_folder, series_id)
series_out_dir(i) ==
  << tasks[i].patient_folder, tasks[i].date_folder, tasks[i].series_id >>

local_zip_path(i)  == [dir |-> series_out_dir(i), name |-> << tasks[i].series_id, "zip" >>]
nifti_path(i)      == [dir |-> series_out_dir(i), name |-> << tasks[i].series_id, "nii", "gz" >>]
local_json_path(i) == [dir |-> series_out_dir(i), name |-> << tasks[i].series_id, "json" >>]

\* where zf.extractall puts a member
Extracted(i, e) == [dir |-> series_out_dir(i) \o e.sub, name |-> e.name]

\* os.makedirs(p, exist_ok=True)
Makedirs(ds, p) == ds \cup Ancestors(p)

\* (variant: the copied .zip is never removed)
RemoveZip_Skipped(fs, i) == fs

\* os.remove(local_zip_path), when it does not raise
RemoveZip(fs, i) == fs \ {local_zip_path(i)}

\* shutil.rmtree(root, ignore_errors=True); S: the files whose removal fails.
\* Errors are swallowed: the files of S stay, and so does every folder that
\* still holds one of them (its rmdir fails on a non-empty folder).
RmtreeFiles(fs, root, S) == (fs \ FilesUnder(fs, root)) \cup S

RmtreeDirs(ds, root, S) ==
  (ds \ DirsUnder(ds, root))
    \cup { d \in DirsUnder(ds, root) : \E f \in S : IsPrefix(d, f.dir) }

\* ---------------------------------------------------------------- the environment
\* How the calls made for one task behave.  With free = TRUE every call may
\* succeed or fail in any way at each step; otherwise the fields fix the
\* behaviour: mk, cp, res, rd, wr, js name the result of os.makedirs, of the
\* copy of the .zip, of extractall, of reader.Execute, of sitk.WriteImage
\* and of the copy of the .json; done holds the members a failing extractall
\* has written; zip_removed tells whether os.remove of the copied .zip
\* works; stuck holds the names of the files that cannot be deleted.
FreePlan ==
  [free |-> TRUE, mk |-> "ok", cp |-> "ok", res |-> "ok", done |-> {},
   zip_removed |-> TRUE, stuck |-> {}, rd |-> "ok", wr |-> "ok", js |-> "ok"]

Planned(i, field, v) == plan[i].free \/ plan[i][field] = v

PlannedStuck(i, S, candidates) ==
  plan[i].free \/ S = { f \in candidates : f.name \in plan[i].stuck }

\* outcome, pc, files, dirs: the state the first processing ended in, failed:
\* whether its sweep met a removal error; files0, dirs0: the tree it started from
NoSnapshot ==
  [outcome |-> << >>, pc |-> << >>, files |-> {}, dirs |-> {}, failed |-> FALSE,
   files0 |-> {}, dirs0 |-> {}]

NoneLeft == [files |-> {}, dirs |-> {}]

\* ---------------------------------------------------------------- initial states
Init ==
  /\ \E n \in 0..MaxUnits :
       /\ tasks = SubSeq(UnitPool, 1, n)
       /\ archive \in [1..n -> ArchiveShapes]
       /\ pc = [i \in 1..n |-> "queued"]
       /\ outcome = [i \in 1..n |-> "none"]
       /\ dcm_files = [i \in 1..n |-> {}]
       /\ ran = [i \in 1..n |-> {}]
       /\ undeleted = [i \in 1..n |-> {}]
       /\ runs = [i \in 1..n |-> 0]
  /\ nprocs \in {1, MaxProcs}
  /\ dirs = { << >> }          \* output_dir exists and is empty
  /\ files = {}
  /\ next_task = 1
  /\ results = << >>
  /\ received = 0
  /\ mainpc = "organize"
  /\ sweepFailed = FALSE
  /\ sweepLeft = NoneLeft
  /\ plan = [i \in 1..N |-> FreePlan]
  /\ run = 1
  /\ first = NoSnapshot
  /\ input = {}

\* ---------------------------------------------------------------- process_series
\* process_series is left: by a return statement (how = "returned") or by an
\* exception no handler of the function catches (how = "raised").  Either
\* way the executor that ran it puts a result and is free for the next task.
Leave(i, how, out) ==
  /\ pc' = [pc EXCEPT ![i] = how]
  /\ outcome' = [outcome EXCEPT ![i] = out]
  /\ results' = Append(results, i)

Goto(i, stage) ==
  /\ pc' = [pc EXCEPT ![i] = stage]
  /\ UNCHANGED << outcome, results >>

\* the rollback of a failed series: shutil.rmtree(series_out_dir,
\* ignore_errors=True) on the tree (ds, fs), then return
Rollback(i, ds, fs, out) ==
  \E S \in SUBSET FilesUnder(fs, series_out_dir(i)) :
    /\ Cardinality(S) <= MaxRemoveFailures
    /\ PlannedStuck(i, S, FilesUnder(fs, series_out_dir(i)))
    /\ files' = RmtreeFiles(fs, series_out_dir(i), S)
    /\ dirs' = RmtreeDirs(ds, series_out_dir(i), S)
    /\ undeleted' = [undeleted EXCEPT ![i] = S]
    /\ Leave(i, "returned", out)

\* (variant: a failed copy of the .zip prints its message and goes on to stage 2)
Materialize_NoReturn(i) ==
  /\ mainpc = "organize" /\ pc[i] = "Materialize"
  /\ UNCHANGED << dcm_files, undeleted >>
  /\ \E mk \in {"ok", "date_fails", "series_fails"} :
       LET out_date_path == SubSeq(series_out_dir(i), 1, 2)
           d1 == IF mk = "date_fails" THEN dirs ELSE Makedirs(dirs, out_date_path)
           d2 == IF mk = "ok" THEN Makedirs(d1, series_out_dir(i)) ELSE d1
       IN /\ Planned(i, "mk", mk)
          /\ dirs' = d2
          /\ IF mk # "ok"
             THEN /\ ran' = [ran EXCEPT ![i] = @ \cup {"Materialize"}]
                  /\ Leave(i, "raised", "none")
                  /\ UNCHANGED files
             ELSE \E cp \in {"ok", "fails", "fails_partway"} :
                    /\ Planned(i, "cp", cp)
                    /\ files' = IF cp = "fails" THEN files
                                ELSE files \cup {local_zip_path(i)}
                    /\ ran' = [ran EXCEPT ![i] =
                                 @ \cup {"Materialize"}
                                   \cup (IF cp = "ok" THEN {} ELSE {"copy_failed"})]
                    /\ IF cp = "ok"
                       THEN Goto(i, "Extract")
                       ELSE Goto(i, "Extract")

\* (variant: os.makedirs without exist_ok raises when the series folder is there)
Materialize_NoExistOk(i) ==
  /\ mainpc = "organize" /\ pc[i] = "Materialize"
  /\ UNCHANGED << dcm_files, undeleted >>
  /\ \E mk \in {"ok", "date_fails", "series_fails"} :
       LET out_date_path == SubSeq(series_out_dir(i), 1, 2)
           d1 == IF mk = "date_fails" THEN dirs ELSE Makedirs(dirs, out_date_path)
           d2 == IF mk = "ok" THEN Makedirs(d1, series_out_dir(i)) ELSE d1
       IN /\ Planned(i, "mk", mk)
          /\ dirs' = IF series_out_dir(i) \in dirs THEN dirs ELSE d2
          /\ IF mk # "ok" \/ series_out_dir(i) \in dirs
             THEN /\ ran' = [ran EXCEPT ![i] = @ \cup {"Materialize"}]
                  /\ Leave(i, "raised", "none")
                  /\ UNCHANGED files
             ELSE \E cp \in {"ok", "fails", "fails_partway"} :
                    /\ Planned(i, "cp", cp)
                    /\ files' = IF cp = "fails" THEN files
                                ELSE files \cup {local_zip_path(i)}
                    /\ ran' = [ran EXCEPT ![i] =
                                 @ \cup {"Materialize"}
                                   \cup (IF cp = "ok" THEN {} ELSE {"copy_failed"})]
                    /\ IF cp = "ok"
                       THEN Goto(i, "Extract")
                       ELSE Leave(i, "returned", "SkippedCopyFailure")

\* lines 50-65: the two os.makedirs, then the copy of the .zip
Materialize(i) ==
  /\ mainpc = "organize" /\ pc[i] = "Materialize"
  /\ UNCHANGED << dcm_files, undeleted >>
  /\ \E mk \in {"ok", "date_fails", "series_fails"} :
       LET out_date_path == SubSeq(series_out_dir(i), 1, 2)
           d1 == IF mk = "date_fails" THEN dirs ELSE Makedirs(dirs, out_date_path)
           d2 == IF mk = "ok" THEN Makedirs(d1, series_out_dir(i)) ELSE d1
       IN /\ Planned(i, "mk", mk)
          /\ dirs' = d2
          /\ IF mk # "ok"
             THEN /\ ran' = [ran EXCEPT ![i] = @ \cup {"Materialize"}]
                  /\ Leave(i, "raised", "none")
                  /\ UNCHANGED files
             ELSE \E cp \in {"ok", "fails", "fails_partway"} :
                    /\ Planned(i, "cp", cp)
                    /\ files' = IF cp = "fails" THEN files
                                ELSE files \cup {local_zip_path(i)}
                    /\ ran' = [ran EXCEPT ![i] =
                                 @ \cup {"Materialize"}
                                   \cup (IF cp = "ok" THEN {} ELSE {"copy_failed"})]
                    /\ IF cp = "ok"
                       THEN Goto(i, "Extract")
                       ELSE Leave(i, "returned", "SkippedCopyFailure")

\* lines 67-84: extractall, then os.remove of the copied .zip on each path
Extract(i) ==
  /\ mainpc = "organize" /\ pc[i] = "Extract"
  /\ UNCHANGED dcm_files
  /\ \E res \in {"ok", "BadZipFile", "Exception"}, done \in SUBSET archive[i],
        zip_removed \in BOOLEAN :
       /\ res = "ok" => done = archive[i]
       /\ Planned(i, "res", res) /\ Planned(i, "zip_removed", zip_removed)
       /\ res # "ok" => Planned(i, "done", done)
       /\ ran' = [ran EXCEPT ![i] =
                    @ \cup {"Extract"} \cup (IF res = "ok" THEN {} ELSE {"extract_failed"})]
       /\ LET f1 == files \cup { Extracted(i, e) : e \in done }
              d1 == dirs \cup UNION { Ancestors(series_out_dir(i) \o e.sub) : e \in done }
              f2 == RemoveZip(f1, i)
          IN IF ~zip_removed
             THEN /\ files' = f1 /\ dirs' = d1
                  /\ UNCHANGED undeleted
                  /\ Leave(i, "raised", "none")
             ELSE IF res = "ok"
             THEN /\ files' = f2 /\ dirs' = d1
                  /\ UNCHANGED undeleted
                  /\ Goto(i, "Validate")
             ELSE Rollback(i, d1, f2, "SkippedCorruptArchive")

\* (variant: an empty frame list returns without the rmtree of line 98)
Validate_NoRollback(i) ==
  /\ mainpc = "organize" /\ pc[i] = "Validate"
  /\ ran' = [ran EXCEPT ![i] = @ \cup {"Validate"}]
  /\ LET found == { f \in FilesUnder(files, series_out_dir(i)) : EndsWithDcm(f.name) }
     IN IF found = {}
        THEN /\ Leave(i, "returned", "SkippedNoDecodable")
             /\ UNCHANGED << dcm_files, dirs, files, undeleted >>
        ELSE /\ dcm_files' = [dcm_files EXCEPT ![i] = found]
             /\ Goto(i, "Convert")
             /\ UNCHANGED << dirs, files, undeleted >>

\* lines 88-99: collect the frame files, give up when there is none
Validate(i) ==
  /\ mainpc = "organize" /\ pc[i] = "Validate"
  /\ ran' = [ran EXCEPT ![i] = @ \cup {"Validate"}]
  /\ LET found == { f \in FilesUnder(files, series_out_dir(i)) : EndsWithDcm(f.name) }
     IN IF found = {}
        THEN /\ Rollback(i, dirs, files, "SkippedNoDecodable")
             /\ UNCHANGED dcm_files
        ELSE /\ dcm_files' = [dcm_files EXCEPT ![i] = found]
             /\ Goto(i, "Convert")
             /\ UNCHANGED << dirs, files, undeleted >>

\* (variant: a failed sitk.WriteImage returns without the rmtree of line 117)
Convert_NoRollback(i) ==
  /\ mainpc = "organize" /\ pc[i] = "Convert"
  /\ UNCHANGED dcm_files
  /\ \E rd \in {"ok", "fails"} :
       IF rd = "fails"
       THEN /\ Planned(i, "rd", rd)
            /\ ran' = [ran EXCEPT ![i] = @ \cup {"decode", "convert_failed"}]
            /\ Rollback(i, dirs, files, "SkippedConversionFailure")
       ELSE \E wr \in {"ok", "fails", "fails_partway"} :
              /\ Planned(i, "rd", rd) /\ Planned(i, "wr", wr)
              /\ IF wr = "ok"
                 THEN /\ ran' = [ran EXCEPT ![i] = @ \cup {"decode", "encode"}]
                      /\ files' = files \cup {nifti_path(i)}
                      /\ Goto(i, "Finalize")
                      /\ UNCHANGED << dirs, undeleted >>
                 ELSE /\ ran' = [ran EXCEPT ![i] =
                                   @ \cup {"decode", "encode", "convert_failed"}]
                      /\ files' = IF wr = "fails" THEN files ELSE files \cup {nifti_path(i)}
                      /\ Leave(i, "returned", "SkippedConversionFailure")
                      /\ UNCHANGED << dirs, undeleted >>

\* lines 101-118: reader.Execute, then sitk.WriteImage
Convert(i) ==
  /\ mainpc = "organize" /\ pc[i] = "Convert"
  /\ UNCHANGED dcm_files
  /\ \E rd \in {"ok", "fails"} :
       IF rd = "fails"
       THEN /\ Planned(i, "rd", rd)
            /\ ran' = [ran EXCEPT ![i] = @ \cup {"decode", "convert_failed"}]
            /\ Rollback(i, dirs, files, "SkippedConversionFailure")
       ELSE \E wr \in {"ok", "fails", "fails_partway"} :
              /\ Planned(i, "rd", rd) /\ Planned(i, "wr", wr)
              /\ IF wr = "ok"
                 THEN /\ ran' = [ran EXCEPT ![i] = @ \cup {"decode", "encode"}]
                      /\ files' = files \cup {nifti_path(i)}
                      /\ Goto(i, "Finalize")
                      /\ UNCHANGED << dirs, undeleted >>
                 ELSE /\ ran' = [ran EXCEPT ![i] =
                                   @ \cup {"decode", "encode", "convert_failed"}]
                      /\ Rollback(i, dirs,
                                  IF wr = "fails" THEN files ELSE files \cup {nifti_path(i)},
                                  "SkippedConversionFailure")

\* (variant: a failed copy of the .json tears the series folder down)
Finalize_RollsBack(i) ==
  /\ mainpc = "organize" /\ pc[i] = "Finalize"
  /\ UNCHANGED dcm_files
  /\ \E F \in SUBSET dcm_files[i], js \in {"ok", "fails", "fails_partway"} :
       /\ Cardinality(F) <= MaxRemoveFailures
       /\ ran' = [ran EXCEPT ![i] =
                    @ \cup {"Finalize"} \cup (IF js = "ok" THEN {"sidecar"} ELSE {})]
       /\ IF js = "ok"
          THEN /\ files' = (files \ (dcm_files[i] \ F)) \cup {local_json_path(i)}
               /\ undeleted' = [undeleted EXCEPT ![i] = F]
               /\ Leave(i, "returned", "Completed")
               /\ UNCHANGED dirs
          ELSE Rollback(i, dirs, files \ (dcm_files[i] \ F), "SkippedCopyFailure")

\* lines 120-138: remove every collected frame file, copy the .json, return
Finalize(i) ==
  /\ mainpc = "organize" /\ pc[i] = "Finalize"
  /\ UNCHANGED << dcm_files, dirs >>
  /\ \E F \in SUBSET dcm_files[i], js \in {"ok", "fails", "fails_partway"} :
       /\ Cardinality(F) <= MaxRemoveFailures
       /\ PlannedStuck(i, F, dcm_files[i]) /\ Planned(i, "js", js)
       /\ files' = (files \ (dcm_files[i] \ F))
                     \cup (IF js = "fails" THEN {} ELSE {local_json_path(i)})
       /\ undeleted' = [undeleted EXCEPT ![i] = F]
       /\ ran' = [ran EXCEPT ![i] =
                    @ \cup {"Finalize"} \cup (IF js = "ok" THEN {"sidecar"} ELSE {})]
       /\ Leave(i, "returned", "Completed")

\* ---------------------------------------------------------------- the dispatch loop of main
\* The tasks an executor is inside process_series for.
Running ==
  { i \in 1..N : pc[i] \in {"Materialize", "Extract", "Validate", "Convert", "Finalize"} }

\* The number of executors: the processes of Pool(processes=nprocs) when
\* nprocs > 1, else main itself, whose map() calls process_series for one
\* task only after the loop has taken the previous result.
Executors == IF nprocs > 1 THEN nprocs ELSE 1

\* An idle executor takes the next task of the list and calls process_series.
Start(i) ==
  /\ mainpc = "organize"
  /\ Cardinality(Running) < Executors
  /\ i = next_task /\ i <= N
  /\ (nprocs > 1) \/ (results = << >>)
  /\ pc' = [pc EXCEPT ![i] = "Materialize"]
  /\ runs' = [runs EXCEPT ![i] = @ + 1]
  /\ next_task' = next_task + 1
  /\ UNCHANGED << tasks, archive, nprocs, dirs, files, outcome, dcm_files, ran,
                  undeleted, results, received, mainpc, sweepFailed, sweepLeft >>
  /\ UNCHANGED fixed

\* One iteration of "for _ in tqdm(...)": the loop takes a result; a result
\* that is an exception is re-raised in main, which leaves the with-block
\* (the pool is terminated) and ends main.
MainLoopNext ==
  /\ mainpc = "organize"
  /\ results # << >>
  /\ results' = Tail(results)
  /\ IF pc[Head(results)] = "raised"
     THEN /\ mainpc' = "crashed"
          /\ UNCHANGED received
     ELSE /\ received' = received + 1
          /\ UNCHANGED mainpc
  /\ UNCHANGED << tasks, archive, nprocs, dirs, files, pc, outcome, dcm_files, ran,
                  undeleted, runs, next_task, sweepFailed, sweepLeft >>
  /\ UNCHANGED fixed

\* (variant: the loop ends as soon as every task has been handed out)
AllResultsIn_Dispatched == next_task > N

\* the loop ends when the iterator is exhausted
AllResultsIn == received = N /\ results = << >>

OrganizationComplete ==
  /\ mainpc = "organize"
  /\ AllResultsIn
  /\ mainpc' = "clean_files"
  /\ UNCHANGED << tasks, archive, nprocs, dirs, files, pc, outcome, dcm_files, ran,
                  undeleted, runs, next_task, results, received, sweepFailed, sweepLeft >>
  /\ UNCHANGED fixed

\* (variant: the file pass also removes a folder as soon as it has emptied it)
SanitizeFiles_AndFolders ==
  /\ mainpc = "clean_files"
  /\ LET invalid == { f \in files : IsInvalid(f.name) }
     IN \E F \in SUBSET invalid :
          /\ Cardinality(F) <= MaxSweepFailures
          /\ files' = files \ (invalid \ F)
          /\ dirs' = dirs \ { d \in dirs :
                                /\ d # << >>
                                /\ \E f \in files : f.dir = d
                                /\ ~ \E f \in files' : f.dir = d
                                /\ ~ \E c \in dirs : c # d /\ IsPrefix(d, c) }
          /\ sweepFailed' = (sweepFailed \/ F # {})
          /\ sweepLeft' = [files |-> F, dirs |-> {}]
  /\ mainpc' = "clean_dirs"
  /\ UNCHANGED << tasks, archive, nprocs, pc, outcome, dcm_files, ran,
                  undeleted, runs, next_task, results, received >>
  /\ UNCHANGED fixed

\* (variant: the first os.remove that raises ends the file pass)
SanitizeFiles_Abort ==
  /\ mainpc = "clean_files"
  /\ LET invalid == { f \in files : IsInvalid(f.name) }
     IN \E F \in SUBSET invalid :
          /\ Cardinality(F) <= MaxSweepFailures
          /\ files' = IF F = {} THEN files \ invalid ELSE files
          /\ sweepFailed' = (sweepFailed \/ F # {})
          /\ sweepLeft' = [files |-> F, dirs |-> {}]
  /\ mainpc' = "clean_dirs"
  /\ UNCHANGED << tasks, archive, nprocs, dirs, pc, outcome, dcm_files, ran,
                  undeleted, runs, next_task, results, received >>
  /\ UNCHANGED fixed

\* (variant: the folder pass judges every folder by the tree as it was at the
\* start of the pass, parents before their children are removed)
SanitizeDirs_TopDown ==
  /\ mainpc = "clean_dirs"
  /\ LET empty == { d \in dirs :
                      /\ ~ \E f \in files : f.dir = d
                      /\ ~ \E c \in dirs : c # d /\ IsPrefix(d, c) }
     IN \E F \in SUBSET empty :
          /\ Cardinality(F) <= MaxSweepFailures
          /\ dirs' = dirs \ (empty \ F)
          /\ sweepFailed' = (sweepFailed \/ F # {})
          /\ sweepLeft' = [sweepLeft EXCEPT !.dirs = F]
  /\ mainpc' = "done"
  /\ UNCHANGED << tasks, archive, nprocs, files, pc, outcome, dcm_files, ran,
                  undeleted, runs, next_task, results, received >>
  /\ UNCHANGED fixed

\* ---------------------------------------------------------------- the sweep
\* lines 146-158: every file of the tree that fails the allow-list is
\* removed; F: the files whose os.remove raises
SanitizeFiles ==
  /\ mainpc = "clean_files"
  /\ LET invalid == { f \in files : IsInvalid(f.name) }
     IN \E F \in SUBSET invalid :
          /\ Cardinality(F) <= MaxSweepFailures
          /\ files' = files \ (invalid \ F)
          /\ sweepFailed' = (sweepFailed \/ F # {})
          /\ sweepLeft' = [files |-> F, dirs |-> {}]
  /\ mainpc' = "clean_dirs"
  /\ UNCHANGED << tasks, archive, nprocs, dirs, pc, outcome, dcm_files, ran,
                  undeleted, runs, next_task, results, received >>
  /\ UNCHANGED fixed

\* lines 160-168: bottom-up, a directory that is empty at its turn is removed
\* unless its os.rmdir raises (F).  Directories of one depth are handled
\* together, children before parents.
RECURSIVE SweepDirs(_, _, _, _)
SweepDirs(ds, fs, F, depth) ==
  IF depth < 0 THEN ds
  ELSE LET gone == { d \in ds :
                       /\ Len(d) = depth
                       /\ d \notin F
                       /\ ~ \E f \in fs : f.dir = d
                       /\ ~ \E c \in ds : Len(c) = depth + 1 /\ IsPrefix(d, c) }
       IN SweepDirs(ds \ gone, fs, F, depth - 1)

MaxDepth(ds) == IF ds = {} THEN 0
                ELSE CHOOSE m \in { Len(d) : d \in ds } : \A d \in ds : Len(d) <= m

\* the folders whose os.rmdir was tried and raised: those of F found empty
\* at their turn (ds: the folders the pass has left)
RmdirFailed(ds, fs, F) ==
  { d \in F \cap ds :
      /\ ~ \E f \in fs : f.dir = d
      /\ ~ \E c \in ds : Len(c) = Len(d) + 1 /\ IsPrefix(d, c) }

SanitizeDirs ==
  /\ mainpc = "clean_dirs"
  /\ LET empty == dirs \ SweepDirs(dirs, files, {}, MaxDepth(dirs))
     IN \E F \in SUBSET empty :
          /\ Cardinality(F) <= MaxSweepFailures
          /\ dirs' = SweepDirs(dirs, files, F, MaxDepth(dirs))
          /\ sweepFailed' = (sweepFailed \/ F # {})
          /\ sweepLeft' = [sweepLeft EXCEPT !.dirs = RmdirFailed(dirs', files, F)]
  /\ mainpc' = "done"
  /\ UNCHANGED << tasks, archive, nprocs, files, pc, outcome, dcm_files, ran,
                  undeleted, runs, next_task, results, received >>
  /\ UNCHANGED fixed

\* ---------------------------------------------------------------- specification
Stage(i) ==
  /\ \/ Materialize(i)
     \/ Extract(i)
     \/ Validate(i)
     \/ Convert(i)
     \/ Finalize(i)
  /\ UNCHANGED << tasks, archive, nprocs, runs, next_task, received, mainpc,
                  sweepFailed, sweepLeft >>
  /\ UNCHANGED fixed

Next ==
  \/ \E i \in 1..N : Start(i)
  \/ \E i \in 1..N : Stage(i)
  \/ MainLoopNext
  \/ OrganizationComplete
  \/ SanitizeFiles
  \/ SanitizeDirs

Spec == Init /\ [][Next]_vars

TypeOK ==
  /\ mainpc \in {"scan", "organize", "clean_files", "clean_dirs", "done", "crashed"}
  /\ run \in {1, 2}
  /\ sweepLeft.files \subseteq files /\ sweepLeft.dirs \subseteq dirs
  /\ \A i \in 1..N :
       /\ pc[i] \in {"queued", "Materialize", "Extract", "Validate", "Convert",
                     "Finalize", "returned", "raised"}
       /\ outcome[i] \in {"none", "Completed", "SkippedCopyFailure",
                          "SkippedCorruptArchive", "SkippedNoDecodable",
                          "SkippedConversionFailure"}
  /\ \A f \in files : f.dir \in dirs
  /\ \A d \in dirs : Ancestors(d) \subseteq dirs

\* ---------------------------------------------------------------- the same tasks processed twice
\* Fixed behaviours of the environment for one task whose .zip has the
\* members of shape: no failure, or one call that fails, with at most one
\* file name that cannot be deleted.
SmoothPlan == [FreePlan EXCEPT !.free = FALSE]

StuckSets(shape) == { {} } \cup { { e.name } : e \in shape }

PlanPool(shape) ==
  { SmoothPlan,
    [SmoothPlan EXCEPT !.mk = "series_fails"],
    [SmoothPlan EXCEPT !.cp = "fails"],
    [SmoothPlan EXCEPT !.cp = "fails_partway"],
    [SmoothPlan EXCEPT !.zip_removed = FALSE] }
  \cup { [SmoothPlan EXCEPT !.res = "BadZipFile", !.done = D, !.stuck = K] :
           D \in SUBSET shape, K \in StuckSets(shape) }
  \cup { [SmoothPlan EXCEPT !.rd = "fails", !.stuck = K] : K \in StuckSets(shape) }
  \cup { [SmoothPlan EXCEPT !.wr = w, !.stuck = K] :
           w \in {"fails", "fails_partway"}, K \in StuckSets(shape) }
  \cup { [SmoothPlan EXCEPT !.js = j, !.stuck = K] :
           j \in {"ok", "fails", "fails_partway"}, K \in StuckSets(shape) }

\* main started on n tasks with procs worker processes, the behaviour of the
\* environment fixed per task
InitPlanned(n, procs) ==
  /\ tasks = SubSeq(UnitPool, 1, n)
  /\ archive \in [1..n -> ArchiveShapes]
  /\ plan \in [1..n -> UNION { PlanPool(shape) : shape \in ArchiveShapes }]
  /\ \A i \in 1..n : plan[i] \in PlanPool(archive[i])
  /\ pc = [i \in 1..n |-> "queued"]
  /\ outcome = [i \in 1..n |-> "none"]
  /\ dcm_files = [i \in 1..n |-> {}]
  /\ ran = [i \in 1..n |-> {}]
  /\ undeleted = [i \in 1..n |-> {}]
  /\ runs = [i \in 1..n |-> 0]
  /\ nprocs = procs
  /\ dirs = { << >> }
  /\ files = {}
  /\ next_task = 1
  /\ results = << >>
  /\ received = 0
  /\ mainpc = "organize"
  /\ sweepFailed = FALSE
  /\ sweepLeft = NoneLeft
  /\ run = 1
  /\ first = NoSnapshot
  /\ input = {}

\* main is over (its loop has ended or an exception has ended it) and is
\* started again on the same tasks with procs worker processes, on the
\* output tree as it is (keepTree) or on an empty one
Restart(keepTree, procs) ==
  /\ run = 1 /\ mainpc \in {"clean_files", "crashed"}
  /\ run' = 2
  /\ first' = [first EXCEPT !.outcome = outcome, !.pc = pc,
                             !.files = files, !.dirs = dirs]
  /\ pc' = [i \in 1..N |-> "queued"]
  /\ outcome' = [i \in 1..N |-> "none"]
  /\ dcm_files' = [i \in 1..N |-> {}]
  /\ ran' = [i \in 1..N |-> {}]
  /\ undeleted' = [i \in 1..N |-> {}]
  /\ runs' = [i \in 1..N |-> 0]
  /\ next_task' = 1 /\ results' = << >> /\ received' = 0
  /\ mainpc' = "organize"
  /\ nprocs' = procs
  /\ dirs' = IF keepTree THEN dirs ELSE { << >> }
  /\ files' = IF keepTree THEN files ELSE {}
  /\ UNCHANGED << tasks, archive, plan, input, sweepFailed, sweepLeft >>

\* one process first, then MaxProcs worker processes on a fresh output tree
InitWorkers == InitPlanned(MaxUnits, 1)

RestartFresh == Restart(FALSE, MaxProcs)

NextWorkers ==
  \/ \E i \in 1..N : Start(i)
  \/ \E i \in 1..N : Stage(i)
  \/ MainLoopNext
  \/ OrganizationComplete
  \/ SanitizeFiles
  \/ SanitizeDirs
  \/ RestartFresh

SpecWorkers == InitWorkers /\ [][NextWorkers]_vars

\* process_series called again for one task on the series folder its first
\* call left
InitRerun == InitPlanned(1, 1)

RestartSameTree == Restart(TRUE, 1)

NextRerun ==
  \/ \E i \in 1..N : Start(i)
  \/ \E i \in 1..N : Stage(i)
  \/ MainLoopNext
  \/ OrganizationComplete
  \/ SanitizeFiles
  \/ SanitizeDirs
  \/ RestartSameTree

SpecRerun == InitRerun /\ [][NextRerun]_vars

\* main with an empty task list
NoTasks ==
  /\ tasks = << >> /\ archive = << >> /\ plan = << >>
  /\ pc = << >> /\ outcome = << >> /\ dcm_files = << >> /\ ran = << >>
  /\ undeleted = << >> /\ runs = << >>
  /\ next_task = 1 /\ results = << >> /\ received = 0

\* ---------------------------------------------------------------- the scan of input_dir
\* The task list of main, lines 183-215.  A folder name is the sequence of
\* its characters; a date folder name is the sequence of its fields between
\* the "-", each a sequence of characters; a file name is the sequence of
\* its pieces between the dots.  A record of `input` is one date folder:
\* patient and date are folders (the os.path.isdir tests of lines 186 and
\* 200), listing is what os.listdir(date_path) returns, each entry with the
\* answer of os.path.isfile.
PatientNames ==
  { << "I", "S", "P", "Y", "2", "-", "1" >>,
    << "A", "C", "R", "I", "N", "-", "6", "6", "9", "8", "-", "7" >>,
    << "X", "I", "S", "P", "Y", "2" >> }

DateNames ==
  { << << "0", "1" >>, << "0", "2" >>, << "2", "0", "0", "3" >> >>,
    << << "0", "2" >>, << "3", "0" >>, << "2", "0", "0", "3" >> >>,
    << << "2", "0", "0", "3" >>, << "0", "1" >>, << "0", "2" >> >> }

ListingPool ==
  { [name |-> << "s1", "zip" >>, isfile |-> TRUE],
    [name |-> << "s1", "json" >>, isfile |-> TRUE],
    [name |-> << "s2", "zip" >>, isfile |-> TRUE],
    [name |-> << "s2", "json" >>, isfile |-> FALSE],
    [name |-> << "s1", "ZIP" >>, isfile |-> TRUE] }

\* line 192: patient_folder.startswith("ACRIN-6698") or .startswith("ISPY2")
Recognized(patient) ==
  \/ IsPrefix(<< "A", "C", "R", "I", "N", "-", "6", "6", "9", "8" >>, patient)
  \/ IsPrefix(<< "I", "S", "P", "Y", "2" >>, patient)

IsDigit(c) == c \in {"0", "1", "2", "3", "4", "5", "6", "7", "8", "9"}

DigitVal(c) == CASE c = "0" -> 0 [] c = "1" -> 1 [] c = "2" -> 2 [] c = "3" -> 3
                 [] c = "4" -> 4 [] c = "5" -> 5 [] c = "6" -> 6 [] c = "7" -> 7
                 [] c = "8" -> 8 [] OTHER -> 9

RECURSIVE NumVal(_)
NumVal(field) ==
  IF field = << >> THEN 0
  ELSE 10 * NumVal(SubSeq(field, 1, Len(field) - 1)) + DigitVal(field[Len(field)])

DaysIn(month, year) ==
  IF month = 2
  THEN (IF year % 4 = 0 /\ (year % 100 # 0 \/ year % 400 = 0) THEN 29 ELSE 28)
  ELSE IF month \in {4, 6, 9, 11} THEN 30 ELSE 31

\* lines 204-208: datetime.strptime(date_folder, "%m-%d-%Y") does not raise:
\* one or two digits, one or two digits, four digits, and a real date
ParsesAsDate(date) ==
  /\ Len(date) = 3
  /\ \A k \in 1..3 : \A j \in 1..Len(date[k]) : IsDigit(date[k][j])
  /\ Len(date[1]) \in 1..2 /\ Len(date[2]) \in 1..2 /\ Len(date[3]) = 4
  /\ NumVal(date[1]) \in 1..12
  /\ NumVal(date[3]) >= 1
  /\ NumVal(date[2]) \in 1..DaysIn(NumVal(date[1]), NumVal(date[3]))

\* f.endswith("." + ext), upper and lower case kept apart
EndsWith(name, ext) == Len(name) >= 2 /\ name[Len(name)] = ext

\* os.path.splitext(f)[0]: the name up to its last dot, the whole name when
\* it has no dot or only leading dots
Stem(name) ==
  IF Len(name) >= 2 /\ (\E k \in 1..(Len(name) - 1) : name[k] # "")
  THEN SubSeq(name, 1, Len(name) - 1)
  ELSE name

\* lines 24-29: the loop over os.listdir(date_path), entry by entry; ids is
\* the pair of sets zip_ids, json_ids
RECURSIVE ScanListing(_, _)
ScanListing(listing, ids) ==
  IF listing = {} THEN ids
  ELSE LET f == CHOOSE e \in listing : TRUE
           next == IF EndsWith(f.name, "zip") /\ f.isfile
                   THEN [ids EXCEPT !.zip_ids = @ \cup {Stem(f.name)}]
                   ELSE IF EndsWith(f.name, "json") /\ f.isfile
                   THEN [ids EXCEPT !.json_ids = @ \cup {Stem(f.name)}]
                   ELSE ids
       IN ScanListing(listing \ {f}, next)

\* (variant: a series with only one of the two files is listed too)
filter_series_Union(listing) ==
  LET ids == ScanListing(listing, [zip_ids |-> {}, json_ids |-> {}])
  IN ids.zip_ids \cup ids.json_ids

\* lines 16-31
filter_series(listing) ==
  LET ids == ScanListing(listing, [zip_ids |-> {}, json_ids |-> {}])
  IN ids.zip_ids \cap ids.json_ids

\* the sequences that hold each element of S once: the order of a set's
\* iteration is not fixed
RECURSIVE Orderings(_)
Orderings(S) ==
  IF S = {} THEN { << >> }
  ELSE UNION { { << x >> \o rest : rest \in Orderings(S \ {x}) } : x \in S }

InitLocator ==
  /\ NoTasks
  /\ nprocs = 1
  /\ dirs = { << >> }
  /\ files = {}
  /\ mainpc = "scan"
  /\ sweepFailed = FALSE
  /\ sweepLeft = NoneLeft
  /\ run = 1
  /\ first = NoSnapshot
  /\ input = {}

\* lines 189-215: one round of the loop over the date folders: the prefix
\* test, the date test, filter_series, and the tasks appended
ScanDateDir ==
  /\ mainpc = "scan"
  /\ Cardinality(input) < MaxInputDirs
  /\ \E p \in PatientNames, d \in DateNames, L \in SUBSET ListingPool :
       /\ Cardinality(L) <= MaxListing
       /\ ~ \E r \in input : r.patient = p /\ r.date = d
       /\ input' = input \cup { [patient |-> p, date |-> d, listing |-> L] }
       /\ LET series_ids == IF Recognized(p) /\ ParsesAsDate(d)
                            THEN filter_series(L) ELSE {}
          IN \E order \in Orderings(series_ids) :
               tasks' = tasks \o [k \in 1..Len(order) |->
                                    [patient_folder |-> p, date_folder |-> d,
                                     series_id |-> order[k]]]
  /\ UNCHANGED << archive, nprocs, dirs, files, pc, outcome, dcm_files, ran,
                  undeleted, runs, next_task, results, received, mainpc,
                  sweepFailed, sweepLeft, plan, run, first >>

NextLocator == ScanDateDir

SpecLocator == InitLocator /\ [][NextLocator]_vars

\* ---------------------------------------------------------------- the sweep on its own
\* remove_invalid_files_and_empty_dirs(root_dir) called on any small tree, and
\* called again on what it left.
SweepPaths == { << >>, << "a" >>, << "a", "b" >>, << "c" >> }

SweepNames ==
  { << "x", "txt" >>, << "k", "json" >>, << "LICENSE" >>, << "v", "nii", "gz" >>,
    << "", "hidden" >> }

SweepTrees == { D \in SUBSET SweepPaths : << >> \in D /\ \A d \in D : Ancestors(d) \subseteq D }

InitSweep ==
  /\ NoTasks
  /\ nprocs = 1
  /\ dirs \in SweepTrees
  /\ files \in { F \in SUBSET [dir : dirs, name : SweepNames] :
                   Cardinality(F) <= MaxSweepFiles }
  /\ mainpc = "clean_files"
  /\ sweepFailed = FALSE
  /\ sweepLeft = NoneLeft
  /\ run = 1
  /\ first = [NoSnapshot EXCEPT !.files0 = files, !.dirs0 = dirs]
  /\ input = {}

\* the second call of remove_invalid_files_and_empty_dirs on the same root
SweepAgain ==
  /\ mainpc = "done" /\ run = 1
  /\ mainpc' = "clean_files"
  /\ run' = 2
  /\ first' = [first EXCEPT !.files = files, !.dirs = dirs, !.failed = sweepFailed]
  /\ sweepFailed' = FALSE
  /\ sweepLeft' = NoneLeft
  /\ UNCHANGED << tasks, archive, nprocs, dirs, files, pc, outcome, dcm_files, ran,
                  undeleted, runs, next_task, results, received, plan, input >>

NextSweep ==
  \/ SanitizeFiles
  \/ SanitizeDirs
  \/ SweepAgain

SpecSweep == InitSweep /\ [][NextSweep]_vars

\* ---------------------------------------------------------------- properties
StagingFiles(i) == FilesUnder(files, series_out_dir(i))

StagingAbsent(i) == series_out_dir(i) \notin dirs /\ StagingFiles(i) = {}

\* process_series has returned and the sweep has not touched the tree yet
AtReturn(i) == pc[i] = "returned" /\ mainpc \in {"organize", "clean_files", "crashed"}

NonFrameMembers(i) == { Extracted(i, e) : e \in { m \in archive[i] : ~EndsWithDcm(m.name) } }

\* C1 (as stated): once process_series has returned, the series folder is
\* absent or holds exactly the .nii.gz volume and, if the copy of the .json
\* succeeded, the .json: no frame file, no copied .zip, no other member.
C1_OnlyTerminalArtifacts ==
  \A i \in 1..N :
    AtReturn(i) =>
      \/ StagingAbsent(i)
      \/ /\ series_out_dir(i) \in dirs
         /\ StagingFiles(i) =
              {nifti_path(i)} \cup (IF "sidecar" \in ran[i] THEN {local_json_path(i)} ELSE {})

\* C1 (amended): once process_series has returned, what the series folder
\* holds depends on the return taken.  After a failed copy of the .zip the
\* folder exists and holds at most the unfinished copy.  After a failed
\* extraction, an empty frame list or a failed conversion it holds only files
\* whose removal failed inside rmtree, and is absent when none failed.
\* After a completed run it holds the volume, the .json when its copy
\* succeeded, never the copied .zip, frame files only where their deletion
\* failed, and otherwise only members of the archive that are no frames.
C1_ContentsAtReturn ==
  \A i \in 1..N :
    AtReturn(i) =>
      /\ outcome[i] = "SkippedCopyFailure" =>
           series_out_dir(i) \in dirs /\ StagingFiles(i) \subseteq {local_zip_path(i)}
      /\ outcome[i] \in {"SkippedCorruptArchive", "SkippedNoDecodable",
                         "SkippedConversionFailure"} =>
           /\ StagingFiles(i) \subseteq undeleted[i]
           /\ undeleted[i] = {} => StagingAbsent(i)
      /\ outcome[i] = "Completed" =>
           /\ nifti_path(i) \in files
           /\ local_zip_path(i) \notin files
           /\ "sidecar" \in ran[i] => local_json_path(i) \in files
           /\ \A f \in StagingFiles(i) : EndsWithDcm(f.name) => f \in undeleted[i]
           /\ StagingFiles(i) \subseteq
                {nifti_path(i), local_json_path(i)} \cup undeleted[i] \cup NonFrameMembers(i)

\* C1 witness: one run in which a series returned after a failed copy, its
\* folder left in place, and another completed with a frame file it could
\* not delete and a non-frame member still in its folder.
C1_Witness ==
  \E i, j \in 1..N :
    /\ AtReturn(i) /\ outcome[i] = "SkippedCopyFailure" /\ series_out_dir(i) \in dirs
    /\ AtReturn(j) /\ outcome[j] = "Completed"
    /\ undeleted[j] # {} /\ undeleted[j] \subseteq files
    /\ NonFrameMembers(j) # {} /\ NonFrameMembers(j) \subseteq files

\* C2 (as stated): the sweep never removes a file of an allow-listed kind:
\* when it has finished, every completed series still has its .nii.gz volume
\* and the .json whose copy succeeded.
C2_SweepKeepsDeliverables ==
  mainpc = "done" =>
    \A i \in 1..N :
      outcome[i] = "Completed" =>
        /\ nifti_path(i) \in files
        /\ "sidecar" \in ran[i] => local_json_path(i) \in files

\* C3 (as stated): after a full run in which every series completed and the
\* sweep met no removal failure, the files left in the output tree are, per
\* series, its volume and its .json, and nothing else: no frame file left by
\* a failed deletion, no copied .zip, no other file.
C3_OnlyDeliverablesSurvive ==
  (mainpc = "done" /\ ~sweepFailed /\ \A i \in 1..N : outcome[i] = "Completed") =>
    /\ \A i \in 1..N : nifti_path(i) \in files
    /\ files \subseteq UNION { {nifti_path(i), local_json_path(i)} : i \in 1..N }

\* C4 (as stated): when extractall fails, the series ends as
\* SkippedCorruptArchive and nothing is left at the series folder's path.
C4_CorruptArchiveLeavesNoTrace ==
  \A i \in 1..N :
    ("extract_failed" \in ran[i] /\ mainpc \in {"organize", "clean_files", "crashed"}) =>
      /\ pc[i] = "returned"
      /\ outcome[i] = "SkippedCorruptArchive"
      /\ ran[i] \cap {"Validate", "decode", "encode", "Finalize"} = {}
      /\ StagingAbsent(i)

\* C5 (as stated): a series whose extraction succeeded but whose scan found
\* no frame file ends as SkippedNoDecodable, is never decoded or encoded,
\* and its folder is gone with everything in it.
C5_NoFramesLeavesNoTrace ==
  \A i \in 1..N :
    (AtReturn(i) /\ "Validate" \in ran[i] /\ dcm_files[i] = {}) =>
      /\ outcome[i] = "SkippedNoDecodable"
      /\ ran[i] \cap {"decode", "encode", "Finalize"} = {}
      /\ StagingAbsent(i)

\* C5 (amended): a series whose extraction succeeded but whose scan found no
\* frame file ends as SkippedNoDecodable and is never decoded or encoded;
\* its folder is gone except for files whose removal failed inside rmtree
\* (with the folders above them), so it is absent when no removal failed.
C5_NoFramesRolledBack ==
  \A i \in 1..N :
    (AtReturn(i) /\ "Validate" \in ran[i] /\ dcm_files[i] = {}) =>
      /\ outcome[i] = "SkippedNoDecodable"
      /\ ran[i] \cap {"decode", "encode", "Finalize"} = {}
      /\ StagingFiles(i) \subseteq undeleted[i]
      /\ undeleted[i] = {} => StagingAbsent(i)

\* C5 witness: a series without frames has returned, once with its folder
\* gone and (another one) with a member the rmtree could not remove.
C5_Witness ==
  \E i, j \in 1..N :
    /\ AtReturn(i) /\ outcome[i] = "SkippedNoDecodable" /\ StagingAbsent(i)
    /\ AtReturn(j) /\ outcome[j] = "SkippedNoDecodable" /\ StagingFiles(j) # {}

\* C6 (as stated): when the read of the frames or the write of the volume
\* fails, the series ends as SkippedConversionFailure, its frames are not
\* deleted one by one nor its .json copied, and its folder is gone.
C6_ConversionFailureLeavesNoTrace ==
  \A i \in 1..N :
    (AtReturn(i) /\ "convert_failed" \in ran[i]) =>
      /\ outcome[i] = "SkippedConversionFailure"
      /\ "Finalize" \notin ran[i]
      /\ StagingAbsent(i)

\* C6 (amended): when the read of the frames or the write of the volume
\* fails, the series ends as SkippedConversionFailure and stage 5 does not
\* run; its folder is gone except for files whose removal failed inside
\* rmtree (with the folders above them), so it is absent, with no frame and
\* no unfinished volume, when no removal failed.
C6_ConversionFailureRolledBack ==
  \A i \in 1..N :
    (AtReturn(i) /\ "convert_failed" \in ran[i]) =>
      /\ outcome[i] = "SkippedConversionFailure"
      /\ "Finalize" \notin ran[i]
      /\ local_json_path(i) \notin files
      /\ StagingFiles(i) \subseteq undeleted[i]
      /\ undeleted[i] = {} => StagingAbsent(i)

\* C6 witness: the write of the volume failed for one series and its folder
\* is gone, the read failed for another and a file survived the rmtree.
C6_Witness ==
  \E i, j \in 1..N :
    /\ AtReturn(i) /\ "convert_failed" \in ran[i] /\ "encode" \in ran[i] /\ StagingAbsent(i)
    /\ AtReturn(j) /\ "convert_failed" \in ran[j] /\ "encode" \notin ran[j]
    /\ StagingFiles(j) # {}

\* C7: a series that reached stage 5 ends as Completed with its volume in
\* its folder, whichever frame deletions fail and whether or not the copy of
\* the .json fails.
C7_FinalizeNeverRollsBack ==
  \A i \in 1..N :
    ("Finalize" \in ran[i] /\ mainpc \in {"organize", "clean_files", "crashed"}) =>
      /\ pc[i] = "returned"
      /\ outcome[i] = "Completed"
      /\ series_out_dir(i) \in dirs
      /\ nifti_path(i) \in files

\* C7 witness: a series went through stage 5 with a failed frame deletion
\* and a failed copy of the .json.
C7_Witness ==
  \E i \in 1..N :
    /\ AtReturn(i) /\ "Finalize" \in ran[i]
    /\ undeleted[i] # {}
    /\ "sidecar" \notin ran[i] /\ local_json_path(i) \notin files

\* C8 (as stated): no failure inside one series' process_series reaches the
\* dispatch loop: no call is left by an exception, and main is not ended by
\* one before the other tasks are done and the sweep has run.
C8_FailureIsolation ==
  /\ \A i \in 1..N : pc[i] # "raised"
  /\ mainpc # "crashed"

\* C9 (as stated): with more than one process, process_series runs exactly
\* once per task: never twice, and when main has ended every task has been
\* run and has its one outcome.
C9_ExactlyOncePerUnit ==
  nprocs > 1 =>
    /\ \A i \in 1..N : runs[i] <= 1
    /\ mainpc \in {"done", "crashed"} =>
         \A i \in 1..N : runs[i] = 1 /\ pc[i] = "returned" /\ outcome[i] # "none"

\* C10: the sweep runs only when no call of process_series is pending or
\* under way: from the end of the dispatch loop on, every task has returned.
C10_SweepAfterAllPipelines ==
  mainpc \in {"clean_files", "clean_dirs", "done"} =>
    /\ Running = {}
    /\ \A i \in 1..N : pc[i] = "returned" /\ runs[i] = 1

\* C10 witness: a run of two or more tasks on a pool has finished its sweep.
C10_Witness == mainpc = "done" /\ nprocs > 1 /\ N >= 2

\* the stages of process_series that come after the extraction
AfterExtract(i) ==
  "Extract" \in ran[i] /\ pc[i] \in {"Validate", "Convert", "Finalize", "returned", "raised"}

\* stage 1 has ended the call: the copy failed or an os.makedirs raised
MaterializeFailed(i) ==
  /\ pc[i] \in {"returned", "raised"}
  /\ "Materialize" \in ran[i] /\ "Extract" \notin ran[i]

\* C14 (as stated): the copied .zip is gone on every way out of the
\* extraction: once stage 2 is left, <series_id>.zip is not in the series
\* folder, during stages 3 to 5 and after the call has ended.
C14_ArchiveCopyGone ==
  \A i \in 1..N : AfterExtract(i) => local_zip_path(i) \notin files

\* C15 (as stated): when stage 1 fails, a copy that broke off midway
\* included, the call ends as SkippedCopyFailure with no later stage run,
\* and the series folder exists and holds nothing, no whole or partial
\* copy of the .zip either.
C15_CopyFailureLeavesOnlyTheFolder ==
  \A i \in 1..N :
    MaterializeFailed(i) =>
      /\ pc[i] = "returned" /\ outcome[i] = "SkippedCopyFailure"
      /\ ran[i] \subseteq {"Materialize", "copy_failed"}
      /\ series_out_dir(i) \in dirs
      /\ StagingFiles(i) = {}

InitPair == Init /\ N = 2

SpecPair == InitPair /\ [][Next]_vars

\* two series folders are different and neither lies inside the other
Disjoint(i, j) ==
  /\ ~ IsPrefix(series_out_dir(i), series_out_dir(j))
  /\ ~ IsPrefix(series_out_dir(j), series_out_dir(i))

\* a step of the call for task i: it moves the position of that call
StepOf(i) == pc'[i] # pc[i]

\* C19: different tasks have different series folders, none inside
\* another; a step of one task's process_series changes files only under
\* that task's own series folder, leaves every other task's series folder
\* as it was, whatever the interleaving, and never changes the input.
C19_PathPartitioning ==
  /\ [](\A i, j \in 1..N : i # j => Disjoint(i, j))
  /\ [][\A i \in 1..N :
          StepOf(i) =>
            /\ files' \ FilesUnder(files', series_out_dir(i))
                 = files \ FilesUnder(files, series_out_dir(i))
            /\ \A j \in 1..N \ {i} :
                 /\ FilesUnder(files', series_out_dir(j)) = StagingFiles(j)
                 /\ DirsUnder(dirs', series_out_dir(j)) = DirsUnder(dirs, series_out_dir(j))
            /\ archive' = archive /\ tasks' = tasks]_vars

\* C19 witness: two calls are in progress at once in the pool, both with
\* extracted files in their series folders.
C19_Witness ==
  \E i, j \in 1..N :
    /\ i # j /\ nprocs > 1
    /\ pc[i] \in {"Validate", "Convert"} /\ pc[j] \in {"Validate", "Convert"}
    /\ StagingFiles(i) # {} /\ StagingFiles(j) # {}

\* a folder with no file and no folder in it
IsEmptyDir(d, ds, fs) ==
  /\ ~ \E f \in fs : f.dir = d
  /\ ~ \E c \in ds : c # d /\ IsPrefix(d, c)

\* C11: remove_invalid_files_and_empty_dirs is idempotent: called on a tree
\* it has already swept (without a removal error), it removes nothing, also
\* when the first call removed the root itself.
C11_SweepIdempotent ==
  (run = 2 /\ ~ first.failed) => (files = first.files /\ dirs = first.dirs)

\* C11 witness: the first call emptied the tree and removed the root with
\* its folders; the second call has run to its end on the missing root.
C11_Witness ==
  /\ run = 2 /\ mainpc = "done" /\ ~ first.failed
  /\ first.dirs0 # { << >> } /\ first.files0 # {}
  /\ first.dirs = {}

\* C17: no folder is removed before the file pass has finished, and the one
\* bottom-up folder pass reaches the fixed point: when no removal failed no
\* empty folder is left, chains of folders that became empty included, and
\* no folder that still holds something is ever removed.
C17_TwoPasses ==
  /\ [][mainpc = "clean_files" => dirs' = dirs]_vars
  /\ [][mainpc = "clean_dirs" =>
          \A d \in dirs \ dirs' : IsEmptyDir(d, dirs', files')]_vars
  /\ []((mainpc = "done" /\ ~ sweepFailed) =>
          /\ \A d \in dirs : ~ IsEmptyDir(d, dirs, files)
          /\ \A f \in files : f.dir \in dirs
          /\ \A d \in dirs : Ancestors(d) \subseteq dirs)

\* C17 witness: the sweep ended without a removal error; the chain a/b, a
\* of folders went once emptied, and folder c, which holds a file, stayed.
C17_Witness ==
  /\ run = 1 /\ mainpc = "done" /\ ~ sweepFailed
  /\ << "a", "b" >> \in first.dirs0
  /\ \E f \in first.files0 : f.dir = << "a", "b" >>
  /\ << "a" >> \notin dirs
  /\ \E f \in files : f.dir = << "c" >>

\* C18: a removal that fails never ends the sweep: every other file that is
\* not allowed is still removed, every other folder that is empty at its
\* turn is still removed, and the sweep comes to its end.
C18_SweepSurvivesFailures ==
  /\ mainpc # "crashed"
  /\ mainpc \in {"clean_dirs", "done"} =>
       { f \in files : IsInvalid(f.name) } \subseteq sweepLeft.files
  /\ mainpc = "done" =>
       { d \in dirs : IsEmptyDir(d, dirs, files) } \subseteq sweepLeft.dirs

\* C18 witness: one os.remove and one os.rmdir failed during the sweep;
\* another file and another folder were removed all the same.
C18_Witness ==
  /\ mainpc = "done" /\ run = 1
  /\ sweepLeft.files # {} /\ sweepLeft.dirs # {}
  /\ \E f \in first.files0 \ files : TRUE
  /\ \E d \in first.dirs0 \ dirs : TRUE

\* the names that are a regular file ending in "." + ext, without it
StemsOf(listing, ext) ==
  { SubSeq(e.name, 1, Len(e.name) - 1) :
      e \in { x \in listing : x.isfile /\ Len(x.name) >= 2 /\ x.name[Len(x.name)] = ext } }

\* C12: the task list holds exactly one task for each patient folder with a
\* recognized prefix, date folder whose name is a month-day-year date, and
\* series id that is both the stem of a .zip and the stem of a .json of that
\* date folder; stems of only one kind, unrecognized prefixes and names
\* that are no date give no task.
C12_TasksAreTheIntersection ==
  /\ \A i, j \in 1..N : tasks[i] = tasks[j] => i = j
  /\ { tasks[i] : i \in 1..N }
       = UNION { { [patient_folder |-> r.patient, date_folder |-> r.date, series_id |-> sid] :
                     sid \in StemsOf(r.listing, "zip") \cap StemsOf(r.listing, "json") } :
                 r \in { x \in input : Recognized(x.patient) /\ ParsesAsDate(x.date) } }

\* C12 witness: two date folders were scanned; one held s1.zip and s1.json
\* and gave the task s1, with s2.zip beside them giving none; the other had
\* both files too but a name that is no date, or an unrecognized prefix.
C12_Witness ==
  /\ N = 1
  /\ \E r, q \in input :
       /\ r # q
       /\ { e.name : e \in r.listing } = { << "s1", "zip" >>, << "s1", "json" >>, << "s2", "zip" >> }
       /\ tasks[1].series_id = << "s1" >> /\ tasks[1].patient_folder = r.patient
       /\ { << "s1", "zip" >>, << "s1", "json" >> } \subseteq { e.name : e \in q.listing }
       /\ ~ (Recognized(q.patient) /\ ParsesAsDate(q.date))

\* main has ended its second processing of the tasks (before any sweep)
SecondRunOver == run = 2 /\ mainpc \in {"clean_files", "crashed"}

\* C13 (as stated): the result does not depend on the number of worker
\* processes or on the interleaving: with the same input and the same
\* behaviour of the environment per series, one process and several
\* processes give every series the same outcome and the same final contents
\* of its series folder.
C13_SameResultForAnyWorkerCount ==
  SecondRunOver =>
    /\ outcome = first.outcome
    /\ \A i \in 1..N :
         /\ StagingFiles(i) = FilesUnder(first.files, series_out_dir(i))
         /\ DirsUnder(dirs, series_out_dir(i)) = DirsUnder(first.dirs, series_out_dir(i))

\* C20: process_series called again on a series whose folder is still there
\* from its first call, with the same input and the same behaviour of every
\* stage, ends the same way and leaves the same files and folders as the
\* first call; what the first call left does not change how the second ends.
C20_RerunIdempotent ==
  (run = 2 /\ mainpc \in {"organize", "clean_files", "crashed"}
           /\ \A i \in 1..N : pc[i] \in {"returned", "raised"}) =>
    /\ outcome = first.outcome
    /\ pc = first.pc
    /\ files = first.files
    /\ dirs = first.dirs

\* C20 witness: the first call completed and left the volume, the .json, a
\* member of the .zip that is no frame and a frame it could not delete; the
\* second call on that folder has completed too.
C20_Witness ==
  /\ run = 2 /\ N = 1 /\ pc[1] = "returned" /\ outcome[1] = "Completed"
  /\ nifti_path(1) \in first.files /\ undeleted[1] # {}
  /\ NonFrameMembers(1) \cap first.files # {}

====
